---- MODULE Spec2Model ----
(***************************************************************************)
(* tree-pro: the truncation-aware tree walker (internal/walker.go), the    *)
(* structural signature (FNV-1a 64 over a separator-delimited encoding),   *)
(* the grouping of identical siblings (internal/detect.go) and the item    *)
(* list of the renderer (internal/printer.go buildItems).                  *)
(*                                                                         *)
(* Go strings are modelled as sequences of bytes (naturals 0..255), so the *)
(* hash, the hex formatting, filepath.Ext and strings.ToLower are computed *)
(* as the code computes them.  A 64-bit hash value is four 16-bit limbs,   *)
(* least significant first, all arithmetic modulo 2^64.                    *)
(***************************************************************************)
EXTENDS Naturals, Integers, Sequences, FiniteSets, TLC

(* ------------------------------------------------------------------ *)
(* Byte strings                                                        *)
(* ------------------------------------------------------------------ *)

\* Go string comparison a < b: byte-wise lexicographic
RECURSIVE StrLess(_, _)
StrLess(a, b) ==
    IF b = <<>> THEN FALSE
    ELSE IF a = <<>> THEN TRUE
    ELSE IF Head(a) # Head(b) THEN Head(a) < Head(b)
    ELSE StrLess(Tail(a), Tail(b))

\* the literals the code writes
LitFiles == <<102, 105, 108, 101, 115, 58>>          \* "files:"
LitDirs == <<100, 105, 114, 115, 58>>                \* "dirs:"
LitLeaf == <<108, 101, 97, 102, 58>>                 \* "leaf:"
LitNoExt == <<60, 110, 111, 101, 120, 116, 62>>      \* "<noext>"
LitDPrefix == <<100, 58>>                            \* "d:"
LitLPrefix == <<108, 58>>                            \* "l:"
LitErrPrefix == <<101, 114, 114, 58>>                \* "err:"
\* "*fs.PathError", what %T prints for every error os.ReadDir returns
LitPathErrorType == <<42, 102, 115, 46, 80, 97, 116, 104, 69, 114, 114, 111, 114>>
LitNameColon == <<110, 97, 109, 101, 58>>            \* "name:"
LitLevelColon == <<58, 108, 101, 118, 101, 108, 58>> \* ":level:"
Colon == 58
Slash == 47
Dot == 46

\* strings.ToLower on one byte (ASCII range; the names of the model are ASCII)
LowerByte(c) == IF c >= 65 /\ c <= 90 THEN c + 32 ELSE c

\* strings.ToLower
ToLower(s) == [i \in 1..Len(s) |-> LowerByte(s[i])]

\* filepath.Ext: the suffix beginning at the final dot of the final path
\* element, empty when there is no dot
RECURSIVE ExtFrom(_, _)
ExtFrom(path, i) ==
    IF i < 1 \/ path[i] = Slash THEN <<>>
    ELSE IF path[i] = Dot THEN SubSeq(path, i, Len(path))
    ELSE ExtFrom(path, i - 1)

Ext(path) == ExtFrom(path, Len(path))

\* filepath.Join(path, name) for a clean path and a plain entry name
Join(path, name) == path \o <<Slash>> \o name

\* fmt "%d" of a non-negative int
RECURSIVE FormatInt(_)
FormatInt(v) ==
    IF v < 10 THEN <<48 + v>> ELSE FormatInt(v \div 10) \o <<48 + (v % 10)>>

(* ------------------------------------------------------------------ *)
(* hash/fnv New64a                                                     *)
(* ------------------------------------------------------------------ *)

Limb == 65536

\* offset basis 0xcbf29ce484222325
FnvOffset64 == <<8997, 33826, 40164, 52210>>

\* bitwise exclusive or of two bytes
RECURSIVE XorBits(_, _, _)
XorBits(a, b, n) ==
    IF n = 0 THEN 0
    ELSE (IF (a % 2) # (b % 2) THEN 1 ELSE 0) + 2 * XorBits(a \div 2, b \div 2, n - 1)

\* h ^= byte ; h *= 0x100000001b3 (= 2^40 + 435), modulo 2^64
FnvStep(h, c) ==
    LET l0 == (h[1] - (h[1] % 256)) + XorBits(h[1] % 256, c, 8)
        t0 == l0 * 435
        t1 == h[2] * 435 + (t0 \div Limb)
        t2 == h[3] * 435 + l0 * 256 + (t1 \div Limb)
        t3 == h[4] * 435 + h[2] * 256 + (t2 \div Limb)
    IN  <<t0 % Limb, t1 % Limb, t2 % Limb, t3 % Limb>>

\* the hasher after the bytes lo..hi of a stream were written to a hasher in
\* state h, one FnvStep per byte in stream order (the halves are folded one
\* after the other, so the nesting stays shallow)
RECURSIVE FnvWrite(_, _, _, _)
FnvWrite(h, bytes, lo, hi) ==
    IF lo > hi THEN h
    ELSE IF lo = hi THEN FnvStep(h, bytes[lo])
    ELSE CHOOSE r \in {FnvWrite(left, bytes, ((lo + hi) \div 2) + 1, hi) :
                          left \in {FnvWrite(h, bytes, lo, (lo + hi) \div 2)}} : TRUE

\* fnv.New64a(), then every hasher.Write in turn, then Sum64()
Fnv64a(bytes) ==
    CHOOSE r \in {FnvWrite(FnvOffset64, b, 1, Len(b)) : b \in {bytes}} : TRUE

HexDigit(n) == IF n < 10 THEN 48 + n ELSE 87 + n

\* the sixteen hex digits of a hash value, most significant first
Hex16(h) ==
    [i \in 1..16 |->
        LET limb == h[4 - ((i - 1) \div 4)]
            k == 3 - ((i - 1) % 4)
        IN  HexDigit((limb \div (16 ^ k)) % 16)]

RECURSIVE StripZeros(_)
StripZeros(s) ==
    IF Len(s) > 1 /\ Head(s) = 48 THEN StripZeros(Tail(s)) ELSE s

\* fmt "%x" of a uint64: lower case, no leading zeros
FormatHex(h) == StripZeros(Hex16(h))

\* intToBytes: eight bytes, little endian
RECURSIVE LittleEndian(_, _)
LittleEndian(v, n) ==
    IF n = 0 THEN <<>> ELSE <<v % 256>> \o LittleEndian(v \div 256, n - 1)

intToBytes(v) == LittleEndian(v, 8)

(* ------------------------------------------------------------------ *)
(* The filesystem snapshot and the directory-read primitive            *)
(* ------------------------------------------------------------------ *)

\* an entry of the snapshot: a file, or a directory with the error its read
\* fails with ("" when it can be read) and its entries
FsFile(name) == [name |-> name, isDir |-> FALSE, readErr |-> "", entries |-> <<>>]
FsDir(name, readErr, entries) ==
    [name |-> name, isDir |-> TRUE, readErr |-> readErr, entries |-> entries]

RemoveAt(s, i) == SubSeq(s, 1, i - 1) \o SubSeq(s, i + 1, Len(s))

\* the k-th arrangement of s: the order in which the OS hands out the entries
RECURSIVE Permute(_, _)
Permute(s, k) ==
    IF Len(s) <= 1 THEN s
    ELSE LET i == (k % Len(s)) + 1
         IN  <<s[i]>> \o Permute(RemoveAt(s, i), k \div Len(s))

\* os.ReadDir: the entries in the order the OS returns them, or an error
ReadDir(node, order) ==
    IF node.readErr # ""
    THEN [err |-> node.readErr, entries |-> <<>>]
    ELSE [err |-> "", entries |-> Permute(node.entries, order)]

(* ------------------------------------------------------------------ *)
(* internal/walker.go                                                  *)
(* ------------------------------------------------------------------ *)

\* math.MaxInt, as far as TLC's integers reach; only compared with lengths
MathMaxInt == 2147483647

\* &Directory{Name: name, Path: path, Level: level}: every other field zero
NewDirectory(name, path, level) ==
    [Name |-> name, Path |-> path, Level |-> level,
     Subdirs |-> <<>>, Files |-> <<>>, HiddenFiles |-> 0,
     ImmediateDirCount |-> 0, ImmediateFileCount |-> 0,
     TotalDirs |-> 0, TotalFiles |-> 0,
     Signature |-> <<>>, Err |-> ""]

\* insertion of an entry into a sequence already ordered by name
RECURSIVE InsertEntry(_, _)
InsertEntry(e, s) ==
    IF s = <<>> THEN <<e>>
    ELSE IF StrLess(e.name, Head(s).name) THEN <<e>> \o s
    ELSE <<Head(s)>> \o InsertEntry(e, Tail(s))

\* SortEntries without the sort: the entries stay as the OS handed them out
SortEntries_Unsorted(entries) == entries

\* sort.Slice(entries, func(i, j) bool { entries[i].Name() < entries[j].Name() })
RECURSIVE SortEntries(_)
SortEntries(entries) ==
    IF entries = <<>> THEN <<>>
    ELSE InsertEntry(Head(entries), SortEntries(Tail(entries)))

RECURSIVE InsertString(_, _)
InsertString(e, s) ==
    IF s = <<>> THEN <<e>>
    ELSE IF StrLess(e, Head(s)) THEN <<e>> \o s
    ELSE <<Head(s)>> \o InsertString(e, Tail(s))

\* sort.Strings
RECURSIVE SortStrings(_)
SortStrings(strs) ==
    IF strs = <<>> THEN <<>>
    ELSE InsertString(Head(strs), SortStrings(Tail(strs)))

\* the elements of a set, in some order (a Go map hands out its keys in any order)
RECURSIVE SeqOfSet(_)
SeqOfSet(S) ==
    IF S = {} THEN <<>>
    ELSE LET e == CHOOSE e \in S : TRUE IN <<e>> \o SeqOfSet(S \ {e})

\* the histogram key of a file: lower-cased extension, "<noext>" when empty
ExtKey(filename) ==
    LET ext == ToLower(Ext(filename))
    IN  IF ext = <<>> THEN LitNoExt ELSE ext

\* fileExtCounts[ext]++
Increment(counts, ext) ==
    IF ext \in DOMAIN counts
    THEN [counts EXCEPT ![ext] = @ + 1]
    ELSE [e \in DOMAIN counts \cup {ext} |-> IF e = ext THEN 1 ELSE counts[e]]

\* the bytes written for the sorted extensions: ext, 0, count (walker.go:152-156)
RECURSIVE ExtBytes(_, _)
ExtBytes(exts, counts) ==
    IF exts = <<>> THEN <<>>
    ELSE Head(exts) \o <<0>> \o intToBytes(counts[Head(exts)])
         \o ExtBytes(Tail(exts), counts)

\* the bytes written for the sorted child signatures: sig, 0 (walker.go:164-167)
RECURSIVE SigBytes(_)
SigBytes(sigs) ==
    IF sigs = <<>> THEN <<>> ELSE Head(sigs) \o <<0>> \o SigBytes(Tail(sigs))

\* childSigs = append(childSigs, child.Signature) for every child
RECURSIVE ChildSignatures(_)
ChildSignatures(subdirs) ==
    IF subdirs = <<>> THEN <<>>
    ELSE <<Head(subdirs).Signature>> \o ChildSignatures(Tail(subdirs))

\* ExtBytes without the counts
RECURSIVE ExtBytesNoCount(_)
ExtBytesNoCount(exts) ==
    IF exts = <<>> THEN <<>> ELSE Head(exts) \o <<0>> \o ExtBytesNoCount(Tail(exts))

\* signatureForDirectory hashing the extensions without their counts
signatureForDirectory_NoCounts(fileExtCounts, subdirs) ==
    LET exts == SortStrings(SeqOfSet(DOMAIN fileExtCounts))
        childSigs == SortStrings(ChildSignatures(subdirs))
    IN  LitDPrefix \o FormatHex(Fnv64a(
            LitFiles \o ExtBytesNoCount(exts)
            \o LitDirs \o SigBytes(childSigs)))

signatureForDirectory(fileExtCounts, subdirs) ==
    LET exts == SortStrings(SeqOfSet(DOMAIN fileExtCounts))
        childSigs == SortStrings(ChildSignatures(subdirs))
    IN  LitDPrefix \o FormatHex(Fnv64a(
            LitFiles \o ExtBytes(exts, fileExtCounts)
            \o LitDirs \o SigBytes(childSigs)))

signatureForLeaf(path) == LitLPrefix \o FormatHex(Fnv64a(LitLeaf \o path))

\* fmt.Sprintf("err:%s:%T", path, err); err is always a *fs.PathError
signatureForError(path, err) ==
    LitErrPrefix \o path \o <<Colon>> \o LitPathErrorType

\* errorNode giving the failed directory the signature of an empty directory
errorNode_EmptySignature(name, path, level, err) ==
    [NewDirectory(name, path, level) EXCEPT
        !.Err = err,
        !.Signature = signatureForDirectory([e \in {} |-> 0], <<>>)]

\* the node of a directory whose read failed (walker.go:70-74)
errorNode(name, path, level, err) ==
    [NewDirectory(name, path, level) EXCEPT
        !.Err = err, !.Signature = signatureForError(path, err)]

\* the marker of a subdirectory below the depth limit (walker.go:94-99)
leafNode(name, joined, level) ==
    [NewDirectory(name, joined, level + 1) EXCEPT
        !.Signature = signatureForLeaf(joined)]

\* opts.MaxLevel != 0 && level >= opts.MaxLevel
depthReached(level, opts) == opts.MaxLevel # 0 /\ level >= opts.MaxLevel

\* the effective file limit (walker.go:80-83)
effectiveMaxFiles(opts) == IF opts.MaxFiles <= 0 THEN MathMaxInt ELSE opts.MaxFiles

\* fileStep keeping one file more than the limit
fileStep_OffByOne(acc, filename, maxFiles) ==
    LET counted == [acc EXCEPT !.fileExtCounts = Increment(@, ExtKey(filename))]
    IN  IF Len(acc.files) <= maxFiles
        THEN [counted EXCEPT !.files = Append(@, filename)]
        ELSE [counted EXCEPT !.hiddenFiles = @ + 1]

\* fileStep counting the extension of the retained files only
fileStep_CountRetainedOnly(acc, filename, maxFiles) ==
    IF Len(acc.files) < maxFiles
    THEN [acc EXCEPT !.fileExtCounts = Increment(@, ExtKey(filename)),
                     !.files = Append(@, filename)]
    ELSE [acc EXCEPT !.hiddenFiles = @ + 1]

\* one file entry of the loop (walker.go:109-120)
fileStep(acc, filename, maxFiles) ==
    LET counted == [acc EXCEPT !.fileExtCounts = Increment(@, ExtKey(filename))]
    IN  IF Len(acc.files) < maxFiles
        THEN [counted EXCEPT !.files = Append(@, filename)]
        ELSE [counted EXCEPT !.hiddenFiles = @ + 1]

RECURSIVE SumTotalDirs(_)
SumTotalDirs(subdirs) ==
    IF subdirs = <<>> THEN 0 ELSE Head(subdirs).TotalDirs + SumTotalDirs(Tail(subdirs))

RECURSIVE SumTotalFiles(_)
SumTotalFiles(subdirs) ==
    IF subdirs = <<>> THEN 0 ELSE Head(subdirs).TotalFiles + SumTotalFiles(Tail(subdirs))

\* walker.go:129,131-135
totalDirsOf(subdirs) == Len(subdirs) + SumTotalDirs(subdirs)

\* totalFilesOf leaving out the children's totals
totalFilesOf_OwnOnly(immediateFileCount, subdirs) == immediateFileCount

\* walker.go:130-136
totalFilesOf(immediateFileCount, subdirs) == immediateFileCount + SumTotalFiles(subdirs)

\* the node of a directory that was read, from what the loop gathered
\* (walker.go:123-140)
finishNode(name, path, level, acc) ==
    LET immediateFileCount == Len(acc.files) + acc.hiddenFiles
    IN  [Name |-> name, Path |-> path, Level |-> level,
         Subdirs |-> acc.subdirs, Files |-> acc.files,
         HiddenFiles |-> acc.hiddenFiles,
         ImmediateDirCount |-> Len(acc.subdirs),
         ImmediateFileCount |-> immediateFileCount,
         TotalDirs |-> totalDirsOf(acc.subdirs),
         TotalFiles |-> totalFilesOf(immediateFileCount, acc.subdirs),
         Signature |-> signatureForDirectory(acc.fileExtCounts, acc.subdirs),
         Err |-> ""]

RECURSIVE walkDir(_, _, _, _, _, _)
RECURSIVE loopEntries(_, _, _, _, _, _, _)

\* for _, entry := range entries { ... } (walker.go:90-121)
loopEntries(entries, i, acc, path, level, opts, order) ==
    IF i > Len(entries) THEN acc
    ELSE LET entry == entries[i]
             joined == Join(path, entry.name)
             next ==
                IF entry.isDir
                THEN IF depthReached(level, opts)
                     THEN [acc EXCEPT !.subdirs = Append(@, leafNode(entry.name, joined, level))]
                     ELSE LET child == walkDir(entry, joined, entry.name, level + 1, opts, order)
                          IN  [acc EXCEPT !.subdirs = Append(@, child)]
                ELSE fileStep(acc, entry.name, effectiveMaxFiles(opts))
         IN  loopEntries(entries, i + 1, next, path, level, opts, order)

\* walkDir (walker.go:62-141); node is the directory path names in the snapshot
walkDir(node, path, name, level, opts, order) ==
    LET rd == ReadDir(node, order)
    IN  IF rd.err # ""
        THEN errorNode(name, path, level, rd.err)
        ELSE LET entries == SortEntries(rd.entries)
                 acc0 == [fileExtCounts |-> [e \in {} |-> 0], hiddenFiles |-> 0,
                          files |-> <<>>, subdirs |-> <<>>]
                 acc == loopEntries(entries, 1, acc0, path, level, opts, order)
             IN  finishNode(name, path, level, acc)

\* every node of a tree, the root included
RECURSIVE NodesOf(_)
RECURSIVE NodesOfAll(_)
NodesOfAll(dirs) ==
    IF dirs = <<>> THEN {} ELSE NodesOf(Head(dirs)) \cup NodesOfAll(Tail(dirs))
NodesOf(d) == {d} \cup NodesOfAll(d.Subdirs)

\* Walk failing as soon as any directory of the tree failed to be read
Walk_FailOnAnyError(snap, opts, order) ==
    IF ~snap.exists THEN [dir |-> <<>>, err |-> "ENOENT"]
    ELSE IF ~snap.node.isDir THEN [dir |-> <<>>, err |-> "is not a directory"]
    ELSE LET root == walkDir(snap.node, snap.node.name, snap.node.name, 0, opts, order)
         IN  IF \E d \in NodesOf(root) : d.Err # ""
             THEN [dir |-> <<>>, err |-> (CHOOSE d \in NodesOf(root) : d.Err # "").Err]
             ELSE [dir |-> <<root>>, err |-> ""]

\* Walk (walker.go:45-60): the tree (a sequence of one Directory) or an error.
\* snap.exists tells whether os.Stat finds the path, snap.node what it finds.
Walk(snap, opts, order) ==
    IF ~snap.exists THEN [dir |-> <<>>, err |-> "ENOENT"]
    ELSE IF ~snap.node.isDir THEN [dir |-> <<>>, err |-> "is not a directory"]
    ELSE LET root == walkDir(snap.node, snap.node.name, snap.node.name, 0, opts, order)
         IN  IF root.Err # ""
             THEN [dir |-> <<>>, err |-> root.Err]
             ELSE [dir |-> <<root>>, err |-> ""]

(* ------------------------------------------------------------------ *)
(* internal/detect.go                                                  *)
(* ------------------------------------------------------------------ *)

\* a nil *Directory: no Directory of a tree has an empty path
NilDirectory == NewDirectory(<<>>, <<>>, 0)

\* fmt.Sprintf("name:%s:level:%d", dir.Name, dir.Level)
fallbackSignature(dir) ==
    LitNameColon \o dir.Name \o LitLevelColon \o FormatInt(dir.Level)

\* the key a directory is grouped under (detect.go:21-24)
groupKey(dir) ==
    IF dir.Signature = <<>> THEN fallbackSignature(dir) ELSE dir.Signature

\* one directory of the loop (detect.go:17-28): nil is skipped, a signature
\* seen for the first time is appended to order
groupStep(acc, dir) ==
    IF dir = NilDirectory THEN acc
    ELSE LET sig == groupKey(dir)
         IN  IF sig \in DOMAIN acc.grouped
             THEN [acc EXCEPT !.grouped[sig] = Append(@, dir)]
             ELSE [grouped |->
                      [k \in DOMAIN acc.grouped \cup {sig} |->
                          IF k = sig THEN <<dir>> ELSE acc.grouped[k]],
                   order |-> Append(acc.order, sig)]

RECURSIVE groupLoop(_, _)
groupLoop(dirs, acc) ==
    IF dirs = <<>> THEN acc
    ELSE groupLoop(Tail(dirs), groupStep(acc, Head(dirs)))

\* GroupIdentical handing out the groups sorted by signature
GroupIdentical_SortedBySignature(dirs) ==
    LET acc == groupLoop(dirs, [grouped |-> [k \in {} |-> <<>>], order |-> <<>>])
        sorted == SortStrings(acc.order)
    IN  [i \in 1..Len(sorted) |->
            [Signature |-> sorted[i], Members |-> acc.grouped[sorted[i]]]]

\* GroupIdentical (detect.go:13-40)
GroupIdentical(dirs) ==
    LET acc == groupLoop(dirs, [grouped |-> [k \in {} |-> <<>>], order |-> <<>>])
    IN  [i \in 1..Len(acc.order) |->
            [Signature |-> acc.order[i], Members |-> acc.grouped[acc.order[i]]]]

(* ------------------------------------------------------------------ *)
(* internal/printer.go                                                 *)
(* ------------------------------------------------------------------ *)

DirItem(d) == [kind |-> "itemDir", dir |-> d, file |-> <<>>, collapseCount |-> 0]
CollapseItem(n) ==
    [kind |-> "itemCollapse", dir |-> NilDirectory, file |-> <<>>, collapseCount |-> n]
FileItem(f) == [kind |-> "itemFile", dir |-> NilDirectory, file |-> f, collapseCount |-> 0]
FileSummaryItem(n) ==
    [kind |-> "itemFileSummary", dir |-> NilDirectory, file |-> <<>>, collapseCount |-> n]

\* the effective expansion limit (printer.go:122-125)
effectiveMaxDirs(popts) == IF popts.MaxDirs <= 0 THEN MathMaxInt ELSE popts.MaxDirs

\* groupItems whose collapse item counts every member of the group
groupItems_CountsAll(group, maxDirs) ==
    LET limit == IF Len(group.Members) > maxDirs THEN maxDirs ELSE Len(group.Members)
    IN  [i \in 1..limit |-> DirItem(group.Members[i])]
        \o (IF Len(group.Members) > limit
            THEN <<CollapseItem(Len(group.Members))>>
            ELSE <<>>)

\* the items of one group (printer.go:131-140)
groupItems(group, maxDirs) ==
    LET limit == IF Len(group.Members) > maxDirs THEN maxDirs ELSE Len(group.Members)
    IN  [i \in 1..limit |-> DirItem(group.Members[i])]
        \o (IF Len(group.Members) > limit
            THEN <<CollapseItem(Len(group.Members) - limit)>>
            ELSE <<>>)

RECURSIVE allGroupItems(_, _)
allGroupItems(groups, maxDirs) ==
    IF groups = <<>> THEN <<>>
    ELSE groupItems(Head(groups), maxDirs) \o allGroupItems(Tail(groups), maxDirs)

\* buildItems (printer.go:121-152)
buildItems(dir, popts) ==
    allGroupItems(GroupIdentical(dir.Subdirs), effectiveMaxDirs(popts))
    \o [i \in 1..Len(dir.Files) |-> FileItem(dir.Files[i])]
    \o (IF dir.HiddenFiles > 0 THEN <<FileSummaryItem(dir.HiddenFiles)>> ELSE <<>>)

(* ------------------------------------------------------------------ *)
(* Bounds and the snapshots walked                                     *)
(* ------------------------------------------------------------------ *)

\* --files ranges over 0..MaxFilesFlag, --level over 0..MaxLevelFlag
MaxFilesFlag == 2
MaxLevelFlag == 2
\* the OS hands out the entries of every directory in arrangement 0..MaxOrder
MaxOrder == 2
\* the number of file names a directory of the snapshots draws from
PoolSize == 3
\* --dirs ranges over 0..MaxDirsFlag
MaxDirsFlag == 2
\* the number of sibling directories of the snapshots that are rendered
MaxSiblings == 4

NameR == <<114>>    \* "r"
NameP == <<112>>    \* "p"
NameQ == <<113>>    \* "q"
NameX == <<120>>    \* "x"
NameZ == <<122>>    \* "z"

\* "a.go", "B.GO", "c", "d.sh", "e.Go.sh", ".f"
FilePool ==
    << <<97, 46, 103, 111>>, <<66, 46, 71, 79>>, <<99>>, <<100, 46, 115, 104>>,
       <<101, 46, 71, 111, 46, 115, 104>>, <<46, 102>> >>

\* the first n names of the pool, as files
PoolPrefix(n) == [i \in 1..n |-> FsFile(FilePool[i])]

PoolFiles == PoolPrefix(PoolSize)

\* directories that hold a subdirectory x
Nested ==
    {<<FsFile(FilePool[1]), FsDir(NameX, "", <<FsFile(FilePool[3])>>)>>,
     <<FsDir(NameX, "EACCES", <<FsFile(FilePool[1])>>), FsFile(FilePool[2])>>,
     <<FsDir(NameX, "",
             <<FsFile(FilePool[1]), FsDir(NameZ, "", <<FsFile(FilePool[3])>>)>>)>>}

\* what the directory p under the root may hold
Contents ==
    {PoolPrefix(n) : n \in 0..PoolSize}
    \cup {<<FsFile(FilePool[i])>> : i \in 2..PoolSize}
    \cup Nested

\* what the directory q under the root may hold
FewContents ==
    {PoolPrefix(n) : n \in 0..2}
    \cup {<<FsFile(FilePool[2])>>,
          <<FsFile(FilePool[1]), FsDir(NameX, "", <<FsFile(FilePool[3])>>)>>}

\* the directory trees walked: r/{p/..., a.go, q/...}, p and q possibly
\* unreadable
RootDirs ==
    {FsDir(NameR, "",
           <<FsDir(NameP, "", cp), FsFile(FilePool[1]), FsDir(NameQ, "", cq)>>) :
        cp \in Contents, cq \in FewContents}
    \cup {FsDir(NameR, "",
           <<FsDir(NameP, "EACCES", PoolFiles), FsFile(FilePool[1]), FsDir(NameQ, eq, cq)>>) :
        eq \in {"", "ENOENT"}, cq \in {<<>>, PoolFiles}}

\* what os.Stat may find at the path given on the command line
Snapshots ==
    {[exists |-> TRUE, node |-> d] : d \in RootDirs}
    \cup {[exists |-> FALSE, node |-> FsFile(NameR)],
          [exists |-> TRUE, node |-> FsFile(NameR)],
          [exists |-> TRUE, node |-> FsDir(NameR, "EACCES", PoolFiles)]}

\* "s1", "s2", ...: the name of the i-th sibling
SiblingName(i) == <<115, 48 + i>>

\* what a sibling holds: nothing, one file "a.go", one file "B.GO", or it
\* cannot be read
SiblingKinds ==
    {[readErr |-> "", entries |-> <<>>],
     [readErr |-> "", entries |-> <<FsFile(FilePool[1])>>],
     [readErr |-> "", entries |-> <<FsFile(FilePool[2])>>],
     [readErr |-> "EACCES", entries |-> <<>>]}

\* the trees rendered: r/{s1/, ..., sn/, a.go, B.GO}
RenderSnapshots ==
    UNION {
        {[exists |-> TRUE,
          node |-> FsDir(NameR, "",
                     [i \in 1..n |-> FsDir(SiblingName(i), k[i].readErr, k[i].entries)]
                     \o <<FsFile(FilePool[1]), FsFile(FilePool[2])>>)] :
            k \in [1..n -> SiblingKinds]} : n \in 0..MaxSiblings}

OptionSet == [MaxFiles : 0..MaxFilesFlag, MaxLevel : 0..MaxLevelFlag]

NoResult == [dir |-> <<>>, err |-> ""]

(* ------------------------------------------------------------------ *)
(* The walker as a state machine: one run of the command walks the     *)
(* snapshot, a repeated run walks the same snapshot again               *)
(* ------------------------------------------------------------------ *)

VARIABLES
    snap,       \* the filesystem snapshot
    opts,       \* internal.Options of the run
    order,      \* the arrangement in which the OS hands out entries
    pc,         \* where the command is
    res,        \* what Walk returned
    prev,       \* what Walk returned in the run before
    prevOpts,   \* the options of the run before
    prevOrder,  \* the arrangement of the run before
    maxDirs,    \* PrinterOptions.MaxDirs
    dir,        \* the directory printChildren is printing
    groups,     \* buildItems: groups
    items,      \* printChildren: items
    idx,        \* printChildren: the position of the loop over items
    callers     \* the calls of printChildren that wait for a call to return

vars == <<snap, opts, order, pc, res, prev, prevOpts, prevOrder,
          maxDirs, dir, groups, items, idx, callers>>

walkVars == <<snap, opts, order, res, prev, prevOpts, prevOrder>>
printVars == <<maxDirs, dir, groups, items, idx, callers>>

Init ==
    /\ snap \in Snapshots
    /\ opts \in OptionSet
    /\ order \in 0..MaxOrder
    /\ pc = "start"
    /\ res = NoResult
    /\ prev = NoResult
    /\ prevOpts = opts
    /\ prevOrder = order
    /\ maxDirs = 0
    /\ dir = NilDirectory
    /\ groups = <<>>
    /\ items = <<>>
    /\ idx = 0
    /\ callers = <<>>

\* cmd/root.go RunE: internal.Walk(cleaned, walkerOpts) returns a tree
WalkOk ==
    /\ pc = "start"
    /\ LET r == Walk(snap, opts, order)
       IN  /\ r.err = ""
           /\ res' = r
    /\ pc' = "walked"
    /\ UNCHANGED <<snap, opts, order, prev, prevOpts, prevOrder>>
    /\ UNCHANGED printVars

\* cmd/root.go RunE: internal.Walk fails, the command returns the error
WalkFail ==
    /\ pc = "start"
    /\ LET r == Walk(snap, opts, order)
       IN  /\ r.err # ""
           /\ res' = r
    /\ pc' = "failed"
    /\ UNCHANGED <<snap, opts, order, prev, prevOpts, prevOrder>>
    /\ UNCHANGED printVars

\* the command is run again on the same snapshot with the same --level,
\* any --files, the OS handing out the entries in any arrangement
WalkAgain(maxFiles, ord) ==
    /\ pc = "walked"
    /\ prev' = res
    /\ prevOpts' = opts
    /\ prevOrder' = order
    /\ opts' = [opts EXCEPT !.MaxFiles = maxFiles]
    /\ order' = ord
    /\ res' = Walk(snap, opts', ord)
    /\ pc' = "rewalked"
    /\ UNCHANGED snap
    /\ UNCHANGED printVars

Next ==
    \/ WalkOk
    \/ WalkFail
    \/ \E maxFiles \in 0..MaxFilesFlag, ord \in 0..MaxOrder : WalkAgain(maxFiles, ord)

Spec == Init /\ [][Next]_vars

(* ------------------------------------------------------------------ *)
(* The renderer as a state machine: Walk, then PrintTree, which prints *)
(* the root and, item by item, the directories its items expand        *)
(* ------------------------------------------------------------------ *)

\* the nodes of the tree a Walk returned, none when it returned an error
TreeNodes(r) == IF r.dir = <<>> THEN {} ELSE NodesOf(r.dir[1])

InitRender ==
    /\ snap \in RenderSnapshots
    /\ opts = [MaxFiles |-> 1, MaxLevel |-> 0]
    /\ order = 0
    /\ pc = "start"
    /\ res = NoResult
    /\ prev = NoResult
    /\ prevOpts = opts
    /\ prevOrder = order
    /\ maxDirs \in 0..MaxDirsFlag
    /\ dir = NilDirectory
    /\ groups = <<>>
    /\ items = <<>>
    /\ idx = 0
    /\ callers = <<>>

\* printChildren(writer, d, ...) is entered (printer.go:79-81): the items of d
\* are built and the loop over them begins
PrintChildren(d) ==
    /\ dir' = d
    /\ groups' = GroupIdentical(d.Subdirs)
    /\ items' = buildItems(d, [MaxDirs |-> maxDirs])
    /\ idx' = 1

\* PrintTree (printer.go:21-40): the tree Walk returned is not nil, the root
\* label is written and printChildren is called on the root
PrintTree ==
    /\ pc = "walked"
    /\ res.dir # <<>>
    /\ PrintChildren(res.dir[1])
    /\ callers' = <<>>
    /\ pc' = "printing"
    /\ UNCHANGED <<maxDirs>>
    /\ UNCHANGED walkVars

\* the loop of printChildren at a directory item whose directory has no error
\* (printer.go:89-91, 95-98): its line is written and printChildren is called
\* on it, the caller waiting at the item
PrintDirItem ==
    /\ pc = "printing"
    /\ idx <= Len(items)
    /\ items[idx].kind = "itemDir"
    /\ items[idx].dir.Err = ""
    /\ callers' = Append(callers,
                         [dir |-> dir, groups |-> groups, items |-> items, idx |-> idx])
    /\ PrintChildren(items[idx].dir)
    /\ UNCHANGED <<pc, maxDirs>>
    /\ UNCHANGED walkVars

\* the loop of printChildren at any other item (printer.go:92-94, 100-117): a
\* directory with an error, a collapse item, a file or the file summary is one
\* line, and the loop goes on
PrintLineItem ==
    /\ pc = "printing"
    /\ idx <= Len(items)
    /\ ~(items[idx].kind = "itemDir" /\ items[idx].dir.Err = "")
    /\ idx' = idx + 1
    /\ UNCHANGED <<pc, maxDirs, dir, groups, items, callers>>
    /\ UNCHANGED walkVars

\* the loop of a nested printChildren ends (printer.go:118-119) and the caller
\* goes on behind the item it waited at
PrintReturn ==
    /\ pc = "printing"
    /\ idx > Len(items)
    /\ callers # <<>>
    /\ LET caller == callers[Len(callers)]
       IN  /\ dir' = caller.dir
           /\ groups' = caller.groups
           /\ items' = caller.items
           /\ idx' = caller.idx + 1
    /\ callers' = SubSeq(callers, 1, Len(callers) - 1)
    /\ UNCHANGED <<pc, maxDirs>>
    /\ UNCHANGED walkVars

\* the loop of the printChildren of the root ends, PrintTree writes the
\* totals and returns nil (printer.go:41-42)
PrintTreeReturn ==
    /\ pc = "printing"
    /\ idx > Len(items)
    /\ callers = <<>>
    /\ pc' = "printed"
    /\ UNCHANGED printVars
    /\ UNCHANGED walkVars

NextRender ==
    \/ WalkOk
    \/ PrintTree
    \/ PrintDirItem
    \/ PrintLineItem
    \/ PrintReturn
    \/ PrintTreeReturn

SpecRender == InitRender /\ [][NextRender]_vars

(* ------------------------------------------------------------------ *)
(* What the properties speak about                                     *)
(* ------------------------------------------------------------------ *)

Range(seq) == {seq[i] : i \in 1..Len(seq)}

\* the entry of the snapshot directory f that is called name
FsEntry(f, name) == CHOOSE e \in Range(f.entries) : e.name = name

\* every node of a tree together with the snapshot directory it stands for
RECURSIVE NodePairs(_, _)
NodePairs(d, f) ==
    {<<d, f>>}
    \cup UNION {NodePairs(d.Subdirs[i], FsEntry(f, d.Subdirs[i].Name)) :
                   i \in 1..Len(d.Subdirs)}

\* the pairs of the tree a Walk returned
TreePairs(r) == IF r.dir = <<>> THEN {} ELSE NodePairs(r.dir[1], snap.node)

\* the names of the files and of the subdirectories of a snapshot directory
FsFileNames(f) == {e.name : e \in {x \in Range(f.entries) : ~x.isDir}}
FsDirNames(f) == {e.name : e \in {x \in Range(f.entries) : x.isDir}}

\* a node that stands for a directory below the depth limit, never read
IsMarker(d, o) == o.MaxLevel # 0 /\ d.Level > o.MaxLevel

\* a node whose directory was read without an error
WasRead(d, o) == d.Err = "" /\ ~IsMarker(d, o)

\* the sum of g[1..n]
RECURSIVE SumTo(_, _)
SumTo(g, n) == IF n = 0 THEN 0 ELSE g[n] + SumTo(g, n - 1)

Min(a, b) == IF a < b THEN a ELSE b
Max(a, b) == IF a > b THEN a ELSE b

(* ------------------------------------------------------------------ *)
(* Properties                                                          *)
(* ------------------------------------------------------------------ *)

CountsAddUp(d) ==
    /\ d.TotalFiles =
          (Len(d.Files) + d.HiddenFiles)
          + SumTo([i \in 1..Len(d.Subdirs) |-> d.Subdirs[i].TotalFiles], Len(d.Subdirs))
    /\ d.TotalDirs =
          Len(d.Subdirs)
          + SumTo([i \in 1..Len(d.Subdirs) |-> d.Subdirs[i].TotalDirs], Len(d.Subdirs))

\* the totals of every directory, by path
Totals(r) == {<<d.Path, d.TotalDirs, d.TotalFiles>> : d \in TreeNodes(r)}

\* C4: in every node of a tree Walk returned, totalFileCount is the retained
\* plus the hidden files plus the children's totalFileCount, totalDirCount is
\* the number of subdirectories plus the children's totalDirCount, and a walk
\* of the same snapshot with another file limit gives every directory the
\* same totals
C4_CountInvariant ==
    /\ \A d \in TreeNodes(res) : CountsAddUp(d)
    /\ pc = "rewalked" => Totals(res) = Totals(prev)

\* a tree with hidden files in one directory and files two levels down in
\* another was walked again under another file limit
C4_Witness ==
    /\ pc = "rewalked"
    /\ opts.MaxFiles # prevOpts.MaxFiles
    /\ \E d, e \in TreeNodes(res) :
          /\ d.Level = 1 /\ d.HiddenFiles > 0
          /\ e.Level = 2 /\ e.Files # <<>>
    /\ res.dir[1].TotalFiles >= 5
    /\ res.dir[1].TotalDirs = 3

\* the files kept are the k names that come first in byte order, in that order
FirstInNameOrder(files, names, k) ==
    /\ Len(files) = k
    /\ Range(files) \subseteq names
    /\ \A i \in 1..(Len(files) - 1) : StrLess(files[i], files[i + 1])
    /\ \A kept \in Range(files) : \A other \in names \ Range(files) : StrLess(kept, other)

\* C5: in every node whose directory was read, hiddenFileCount is
\* max(0, immediateFileCount - maxFilesPerDir) under a limit > 0 and 0 under
\* the limit 0, immediateFileCount counts every file of the directory, and the
\* retained files are the first min(immediateFileCount, maxFilesPerDir) files
\* in name order, all of them under the limit 0
C5_Truncation ==
    \A pr \in TreePairs(res) :
        LET d == pr[1]
            names == FsFileNames(pr[2])
            n == Cardinality(names)
        IN  WasRead(d, opts) =>
              /\ d.ImmediateFileCount = n
              /\ d.HiddenFiles =
                    (IF opts.MaxFiles > 0 THEN Max(0, n - opts.MaxFiles) ELSE 0)
              /\ FirstInNameOrder(d.Files, names,
                                  IF opts.MaxFiles > 0 THEN Min(n, opts.MaxFiles) ELSE n)

\* a directory with more files than the limit was walked, under a limit that
\* keeps more than one file
C5_Witness ==
    /\ pc = "walked"
    /\ opts.MaxFiles = 2
    /\ \E d \in TreeNodes(res) : d.HiddenFiles > 0 /\ Len(d.Files) = 2

\* what a node whose read failed looks like
Degenerate(d) ==
    /\ d.Subdirs = <<>> /\ d.Files = <<>> /\ d.HiddenFiles = 0
    /\ d.ImmediateDirCount = 0 /\ d.ImmediateFileCount = 0
    /\ d.TotalDirs = 0 /\ d.TotalFiles = 0

\* os.Stat or the read of the root path fails, or the path is no directory
RootFails == ~snap.exists \/ ~snap.node.isDir \/ snap.node.readErr # ""

\* C6: Walk fails, and returns no tree, exactly when the root path does not
\* exist, is not a directory or cannot be read; otherwise it returns a tree in
\* which every directory whose read fails is a node carrying that error with
\* no children, no files and zero counts, every subdirectory of a directory
\* that was read has its node (read as its own state demands), and the parent
\* counts a failing child as one directory and no files
C6_ReadFailureLocal ==
    pc # "start" =>
        /\ (res.err # "") = RootFails
        /\ (res.err # "") = (res.dir = <<>>)
        /\ \A pr \in TreePairs(res) :
              LET d == pr[1]
                  f == pr[2]
              IN  /\ d.Err # "" => Degenerate(d) /\ d.Err = f.readErr
                  /\ WasRead(d, opts) =>
                        /\ f.readErr = ""
                        /\ {c.Name : c \in Range(d.Subdirs)} = FsDirNames(f)
                        /\ Len(d.Subdirs) = Cardinality(FsDirNames(f))
                        /\ d.TotalDirs =
                              SumTo([i \in 1..Len(d.Subdirs) |->
                                        IF d.Subdirs[i].Err # "" THEN 1
                                        ELSE 1 + d.Subdirs[i].TotalDirs],
                                    Len(d.Subdirs))
                        /\ d.TotalFiles =
                              d.ImmediateFileCount
                              + SumTo([i \in 1..Len(d.Subdirs) |->
                                          IF d.Subdirs[i].Err # "" THEN 0
                                          ELSE d.Subdirs[i].TotalFiles],
                                      Len(d.Subdirs))
                  /\ (~IsMarker(d, opts) /\ f.readErr # "") => d.Err = f.readErr

\* a tree was returned in which p failed to be read and its sibling q was
\* read, files and all
C6_Witness ==
    /\ pc = "walked"
    /\ \E d1, d2 \in Range(res.dir[1].Subdirs) :
          /\ d1.Err # "" /\ d1.Name = NameP
          /\ d2.Err = "" /\ d2.Name = NameQ /\ d2.Files # <<>>
    /\ res.dir[1].TotalDirs = 2

\* the class a file name falls in: its lower-cased extension, the empty
\* string standing for "no extension"
ExtClass(name) == ToLower(Ext(name))

\* the histogram of the extension classes of all files of a snapshot directory
Histogram(f) ==
    [k \in {ExtClass(n) : n \in FsFileNames(f)} |->
        Cardinality({n \in FsFileNames(f) : ExtClass(n) = k})]

\* the multiset of the signatures of the children of a node
SigBag(d) ==
    [sg \in {c.Signature : c \in Range(d.Subdirs)} |->
        Cardinality({i \in 1..Len(d.Subdirs) : d.Subdirs[i].Signature = sg})]

\* C1: two directories that were read, in the trees of any walks of the
\* snapshot, have equal signatures if and only if the histograms of the
\* lower-cased extensions of all their files are equal and the multisets of
\* their children's signatures are equal
C1_SignatureEquality ==
    \A pr1, pr2 \in TreePairs(res) \cup TreePairs(prev) :
        (WasRead(pr1[1], opts) /\ WasRead(pr2[1], opts)) =>
            ((pr1[1].Signature = pr2[1].Signature)
             <=> (/\ Histogram(pr1[2]) = Histogram(pr2[2])
                  /\ SigBag(pr1[1]) = SigBag(pr2[1])))

\* two directories with differently named files have the same signature,
\* and the root, with the same histogram but with children, has another
C1_Witness ==
    /\ pc = "walked"
    /\ opts.MaxFiles = 1
    /\ \E pr1, pr2 \in TreePairs(res) :
          /\ pr1[1].Path # pr2[1].Path
          /\ WasRead(pr1[1], opts) /\ WasRead(pr2[1], opts)
          /\ pr1[1].Signature = pr2[1].Signature
          /\ FsFileNames(pr1[2]) # {}
          /\ FsFileNames(pr1[2]) \cap FsFileNames(pr2[2]) = {}
    /\ \E pr1, pr2 \in TreePairs(res) :
          /\ WasRead(pr1[1], opts) /\ WasRead(pr2[1], opts)
          /\ pr1[1].Signature # pr2[1].Signature
          /\ Histogram(pr1[2]) = Histogram(pr2[2])
          /\ SigBag(pr1[1]) # SigBag(pr2[1])

\* C3 as stated: under maxDepth = N > 0 every directory at depth N is a
\* marker that was never read: no error, no files, no children, the
\* signature of a leaf of unknown contents
C3_DepthNIsMarker ==
    (pc = "walked" /\ opts.MaxLevel > 0) =>
        \A d \in TreeNodes(res) :
            d.Level = opts.MaxLevel =>
                /\ d.Err = "" /\ d.Files = <<>> /\ d.Subdirs = <<>>
                /\ d.ImmediateFileCount = 0 /\ d.TotalFiles = 0
                /\ d.Signature = signatureForLeaf(d.Path)

\* the node is in a group of its own among the children of its parent
AloneInGroup(d, r) ==
    \A parent \in TreeNodes(r) :
        \A g \in Range(GroupIdentical(parent.Subdirs)) :
            d \in Range(g.Members) => Len(g.Members) = 1

\* C7: in a tree Walk returned, a node whose read failed and a marker of a
\* directory below the depth limit share their signature with no other node
\* of the tree, and GroupIdentical puts them in a group of one member
C7_UnreadNeverGroups ==
    \A d \in TreeNodes(res) :
        (d.Err # "" \/ IsMarker(d, opts)) =>
            /\ \A e \in TreeNodes(res) : e.Path # d.Path => e.Signature # d.Signature
            /\ AloneInGroup(d, res)

\* a tree with an unreadable directory next to an empty one that was read
C7_Witness ==
    /\ pc = "walked"
    /\ \E d1, d2 \in Range(res.dir[1].Subdirs) :
          /\ d1.Err # ""
          /\ d2.Err = "" /\ d2.Files = <<>> /\ d2.Subdirs = <<>>
          /\ ~IsMarker(d2, opts)

\* the signature of every directory, by path
SigMap(r) == {<<d.Path, d.Signature>> : d \in TreeNodes(r)}

\* the names of the children of a node, group by group
GroupNames(d) ==
    LET gs == GroupIdentical(d.Subdirs)
    IN  [i \in 1..Len(gs) |-> [m \in 1..Len(gs[i].Members) |-> gs[i].Members[m].Name]]

Grouping(r) == {<<d.Path, GroupNames(d)>> : d \in TreeNodes(r)}

\* C8: walking the same snapshot with the same depth limit and another file
\* limit gives every directory the same signature, and so the same groups
C8_LimitIndependent ==
    pc = "rewalked" =>
        /\ SigMap(res) = SigMap(prev)
        /\ Grouping(res) = Grouping(prev)

\* the two walks hid different numbers of files in some directory, and two
\* siblings are grouped together
C8_Witness ==
    /\ pc = "rewalked"
    /\ opts.MaxFiles # prevOpts.MaxFiles
    /\ \E d1 \in TreeNodes(res), d2 \in TreeNodes(prev) :
          d1.Path = d2.Path /\ d1.HiddenFiles # d2.HiddenFiles
    /\ Len(GroupIdentical(res.dir[1].Subdirs)) = 1
    /\ Len(res.dir[1].Subdirs) = 2

Ascending(names) == \A i \in 1..(Len(names) - 1) : StrLess(names[i], names[i + 1])

\* C9: the tree does not depend on the arrangement in which the OS hands out
\* the entries: children and retained files are in ascending name order, and
\* a walk of the same snapshot under the same options returns the same tree
C9_OrderIndependent ==
    /\ \A d \in TreeNodes(res) :
          /\ Ascending([i \in 1..Len(d.Subdirs) |-> d.Subdirs[i].Name])
          /\ Ascending(d.Files)
    /\ (pc = "rewalked" /\ opts = prevOpts) => res = prev

\* the same options, and the entries of the root came in another arrangement
C9_Witness ==
    /\ pc = "rewalked"
    /\ opts = prevOpts
    /\ Permute(snap.node.entries, order) # Permute(snap.node.entries, prevOrder)
    /\ Len(res.dir[1].Subdirs) = 2
    /\ \E d \in TreeNodes(res) : Len(d.Files) >= 2

\* the least index at which a sibling has the signature
FirstIndex(sibs, sg) ==
    CHOOSE i \in 1..Len(sibs) :
        /\ sibs[i].Signature = sg
        /\ \A k \in 1..(i - 1) : sibs[k].Signature # sg

\* the index of a sibling
IndexOf(sibs, d) == CHOOSE i \in 1..Len(sibs) : sibs[i] = d

\* C2: the groups of GroupIdentical partition the siblings by signature
\* equality, the groups come in the order in which their signatures first
\* occur among the siblings, and the members of a group in sibling order
C2_GroupingStable ==
    pc = "printing" =>
        LET sibs == dir.Subdirs
        IN  /\ \A i \in 1..Len(sibs) :
                  Cardinality({gm \in {<<g, m>> : g \in 1..Len(groups), m \in 1..Len(sibs)} :
                                  /\ gm[2] <= Len(groups[gm[1]].Members)
                                  /\ groups[gm[1]].Members[gm[2]] = sibs[i]}) = 1
            /\ \A g \in 1..Len(groups) :
                  /\ groups[g].Members # <<>>
                  /\ \A m \in Range(groups[g].Members) :
                        m \in Range(sibs) /\ m.Signature = groups[g].Signature
            /\ \A g1, g2 \in 1..Len(groups) :
                  g1 < g2 =>
                      /\ groups[g1].Signature # groups[g2].Signature
                      /\ FirstIndex(sibs, groups[g1].Signature)
                            < FirstIndex(sibs, groups[g2].Signature)
            /\ \A g \in 1..Len(groups) :
                  \A m1, m2 \in 1..Len(groups[g].Members) :
                      m1 < m2 =>
                          IndexOf(sibs, groups[g].Members[m1])
                             < IndexOf(sibs, groups[g].Members[m2])

\* siblings with the signatures s1, s2, s1, s1 were grouped as
\* {s1: [A, C, D]}, {s2: [B]}, s2 being the smaller string
C2_Witness ==
    /\ pc = "printing"
    /\ Len(dir.Subdirs) = 4
    /\ dir.Subdirs[1].Signature = dir.Subdirs[3].Signature
    /\ dir.Subdirs[1].Signature = dir.Subdirs[4].Signature
    /\ StrLess(dir.Subdirs[2].Signature, dir.Subdirs[1].Signature)
    /\ groups =
          <<[Signature |-> dir.Subdirs[1].Signature,
             Members |-> <<dir.Subdirs[1], dir.Subdirs[3], dir.Subdirs[4]>>],
            [Signature |-> dir.Subdirs[2].Signature,
             Members |-> <<dir.Subdirs[2]>>]>>

\* how many members of a group of n are shown under the limit --dirs
Shown(n) == IF maxDirs = 0 THEN n ELSE Min(maxDirs, n)

\* the items the groups should give: the members shown, then one collapse
\* item for the rest when there is a rest
RECURSIVE ExpectedItems(_)
ExpectedItems(gs) ==
    IF gs = <<>> THEN <<>>
    ELSE LET n == Len(Head(gs).Members)
         IN  [i \in 1..Shown(n) |-> DirItem(Head(gs).Members[i])]
             \o (IF n > Shown(n) THEN <<CollapseItem(n - Shown(n))>> ELSE <<>>)
             \o ExpectedItems(Tail(gs))

\* C10: the item list of a directory holds, group by group, the first
\* min(K, |members|) members (all under K = 0) and then one collapse item
\* counting the rest if and only if there is a rest; the directory items and
\* the collapse counts add up to the number of subdirectories, and the groups
\* hold every subdirectory
C10_ItemList ==
    pc = "printing" =>
        LET expected == ExpectedItems(groups)
            dirItems == {i \in 1..Len(items) : items[i].kind = "itemDir"}
            collapses == {i \in 1..Len(items) : items[i].kind = "itemCollapse"}
        IN  /\ Len(items) >= Len(expected)
            /\ SubSeq(items, 1, Len(expected)) = expected
            /\ \A i \in (Len(expected) + 1)..Len(items) :
                  items[i].kind \in {"itemFile", "itemFileSummary"}
            /\ Cardinality(dirItems)
                  + SumTo([i \in 1..Len(items) |->
                              IF i \in collapses THEN items[i].collapseCount ELSE 0],
                          Len(items))
               = Len(dir.Subdirs)
            /\ SumTo([g \in 1..Len(groups) |-> Len(groups[g].Members)], Len(groups))
               = Len(dir.Subdirs)

\* under --dirs 2 a group of three gave two directory items and a collapse
\* item, and a group of one gave one directory item
C10_Witness ==
    /\ pc = "printing"
    /\ maxDirs = 2
    /\ \E g \in 1..Len(groups) : Len(groups[g].Members) = 3
    /\ \E g \in 1..Len(groups) : Len(groups[g].Members) = 1
    /\ \E i \in 1..Len(items) : items[i].kind = "itemCollapse" /\ items[i].collapseCount = 1
    /\ Cardinality({i \in 1..Len(items) : items[i].kind = "itemDir"}) = 3

====
